---- MODULE Spec2Model ----
(***************************************************************************)
(* One run of status_display.py: main() reads two secrets files, brings up *)
(* the e-paper driver, calls nine metric collectors in sequence, renders   *)
(* the values as text, pushes the bitmap and puts the panel to sleep.      *)
(*                                                                         *)
(* Python values are records so that values of different Python types can  *)
(* be compared: [str |-> s], [int |-> i], [none |-> TRUE],                 *)
(* [f100 |-> h] (a float with two decimals, in hundredths) and             *)
(* [f10 |-> t] (a float with one decimal, in tenths).                      *)
(* Every external call (HTTP request, SSH command, file read, PiSugar2     *)
(* call) is a record [method, target, arg, payload, sid].                  *)
(***************************************************************************)
EXTENDS FiniteSets, Integers, Sequences, TLC

\* ---------------------------------------------------------------- bounds
\* largest battery reading offered by the PiSugar2, in quarters of a percent
MaxBatteryQuarters == 5
\* largest percent_blocked offered by the API, in thousandths of a percent
MaxBlockedMilli == 12

\* ------------------------------------------------------------- constants
LOW_BATTERY_THRESHOLD == 20

pihole1_ip == "192.168.50.135"
pihole2_ip == "192.168.50.136"
localhost == "127.0.0.1"

\* ---------------------------------------------------------------- values
PyStr(s) == [str |-> s]
PyInt(i) == [int |-> i]
PyNone == [none |-> TRUE]
PyFloat2(h) == [f100 |-> h]
PyFloat1(t) == [f10 |-> t]
NA == PyStr("N/A")
Pending == [pending |-> TRUE]
NoSid == 0

\* an external call: payload is the Python value sent along (PyNone if none)
Req(method, target, arg, payload, sid) ==
    [method |-> method, target |-> target, arg |-> arg,
     payload |-> payload, sid |-> sid]

\* what a collector hands back to main: a value, or an exception that
\* propagates, together with the external calls it attempted
Returned(v, reqs) == [value |-> v, raised |-> FALSE, requests |-> reqs]
Raised(reqs) == [value |-> Pending, raised |-> TRUE, requests |-> reqs]

\* ------------------------------------------------------- secrets files
\* content of a secrets file: "missing" makes open() fail
SecretFiles == {"missing", "secret"}

read_password_from_file(file) ==
    IF file = "missing" THEN PyNone ELSE PyStr(file)

read_user_from_file(file) ==
    IF file = "missing" THEN PyNone ELSE PyStr(file)


\* ------------------------------------------------------------ PiSugar2
\* what the battery hardware does in this call: ctor, readOk, rtcOk say
\* whether PiSugar2(), get_battery_percentage() and set_pi_from_rtc()
\* succeed; quarters is the reading. What a call that is never made would
\* have done is left out (fixed to success and 0)
BatteryEnvs ==
    {e \in [ctor : BOOLEAN, readOk : BOOLEAN,
            quarters : 0..MaxBatteryQuarters, rtcOk : BOOLEAN] :
        /\ ~e.ctor => e.readOk
        /\ ~(e.ctor /\ e.readOk) => e.rtcOk /\ e.quarters = 0}

\* int() of a non-negative float given in quarters: truncation
IntOfQuarters(q) == q \div 4

PiSugarCall(name) == Req("PISUGAR", "PiSugar2", name, PyNone, NoSid)

\* get_battery with the RTC sync outside the try: its failure is ignored
get_battery_rtcIgnored(env) ==
    LET ctor == <<PiSugarCall("PiSugar2")>>
        read == ctor \o <<PiSugarCall("get_battery_percentage")>>
        rtc  == read \o <<PiSugarCall("set_pi_from_rtc")>>
    IN  IF ~env.ctor THEN Returned(NA, ctor)
        ELSE IF ~env.readOk THEN Returned(NA, read)
        ELSE Returned(PyInt(IntOfQuarters(env.quarters)), rtc)

get_battery(env) ==
    LET ctor == <<PiSugarCall("PiSugar2")>>
        read == ctor \o <<PiSugarCall("get_battery_percentage")>>
        rtc  == read \o <<PiSugarCall("set_pi_from_rtc")>>
    IN  IF ~env.ctor THEN Returned(NA, ctor)
        ELSE IF ~env.readOk THEN Returned(NA, read)
        ELSE IF ~env.rtcOk THEN Returned(NA, rtc)
        ELSE Returned(PyInt(IntOfQuarters(env.quarters)), rtc)

\* -------------------------------------------------------------- PiHole
\* answer of POST /api/auth: a transport or HTTP error, a body that is not
\* the expected JSON, a session with valid = false, or a valid session
AuthKinds == {"http_error", "malformed", "invalid", "valid"}

\* authenticate that posts a second time after a transport or HTTP error
authenticate_retry(ip, password, kind, sid) ==
    [raised   |-> kind # "valid",
     sid      |-> IF kind = "valid" THEN sid ELSE NoSid,
     requests |-> IF kind = "http_error"
                    THEN <<Req("POST", ip, "/api/auth", password, NoSid),
                           Req("POST", ip, "/api/auth", password, NoSid)>>
                    ELSE <<Req("POST", ip, "/api/auth", password, NoSid)>>]

\* authenticate without the check of the valid flag
authenticate_noValidCheck(ip, password, kind, sid) ==
    [raised   |-> kind \notin {"valid", "invalid"},
     sid      |-> IF kind \in {"valid", "invalid"} THEN sid ELSE NoSid,
     requests |-> <<Req("POST", ip, "/api/auth", password, NoSid)>>]

\* authenticate raises unless the session is valid; sid is the session id
\* the service issued for this request
authenticate(ip, password, kind, sid) ==
    [raised   |-> kind # "valid",
     sid      |-> IF kind = "valid" THEN sid ELSE NoSid,
     requests |-> <<Req("POST", ip, "/api/auth", password, NoSid)>>]

\* logout without the try: a failing DELETE raises
logout_raises(ip, sid, ok) ==
    [raised   |-> ~ok,
     requests |-> <<Req("DELETE", ip, "/api/auth", PyNone, sid)>>]

\* logout swallows every exception of the DELETE
logout(ip, sid, ok) ==
    [raised   |-> FALSE,
     requests |-> <<Req("DELETE", ip, "/api/auth", PyNone, sid)>>]

\* float("{:.2f}".format(x)) for x >= 0 given in thousandths: the nearest
\* hundredth (inputs ending in 5 thousandths are not offered: which way
\* they round depends on the binary value of the double)
Round2(milli) == (milli + 5) \div 10

\* body of GET /api/stats/summary
SummaryBodies ==
    [kind : {"malformed", "nopercent"}, milli : {0}]
    \cup [kind : {"percent"},
          milli : {m \in 0..MaxBlockedMilli : m % 10 # 5}]

SummaryOk(body) == body.kind \in {"nopercent", "percent"}

SummaryValue(body) ==
    IF body.kind = "nopercent" THEN PyFloat2(Round2(0))
    ELSE PyFloat2(Round2(body.milli))

\* body of GET /api/dns/blocking
BlockingBodies == {"malformed", "nokey", "enabled"}

BlockingOk(body) == body # "malformed"

BlockingValue(body) == IF body = "nokey" THEN PyNone ELSE PyStr(body)

\* what the filter service does in one collector call. What a request that
\* is never sent would have got is left out (fixed to success and to the
\* malformed body)
HttpEnvs(bodies, malformed) ==
    {e \in [auth : AuthKinds, getOk : BOOLEAN, logoutOk : BOOLEAN,
            body : bodies] :
        /\ e.auth # "valid" => e.getOk
        /\ ~(e.auth = "valid" /\ e.getOk) =>
              e.logoutOk /\ e.body = malformed}

\* the part after authenticate that get_status and get_blocked_percentage
\* share: GET, raise_for_status, logout, parse, all inside one try
AuthenticatedGet(ip, path, a, env, bodyOk, value) ==
    LET get == a.requests \o <<Req("GET", ip, path, PyNone, a.sid)>>
        lo  == logout(ip, a.sid, env.logoutOk)
    IN  IF ~env.getOk THEN Returned(NA, get)
        ELSE IF lo.raised THEN Returned(NA, get \o lo.requests)
        ELSE IF ~bodyOk THEN Returned(NA, get \o lo.requests)
        ELSE Returned(value, get \o lo.requests)

get_blocked_percentage(ip, password, env, sid) ==
    LET a == authenticate(ip, password, env.auth, sid)
    IN  IF a.raised THEN Returned(NA, a.requests)
        ELSE AuthenticatedGet(ip, "/api/stats/summary", a, env,
                              SummaryOk(env.body), SummaryValue(env.body))

get_status(ip, password, env, sid) ==
    LET a == authenticate(ip, password, env.auth, sid)
    IN  IF a.raised THEN Returned(NA, a.requests)
        ELSE AuthenticatedGet(ip, "/api/dns/blocking", a, env,
                              BlockingOk(env.body), BlockingValue(env.body))

\* -------------------------------------------------------------- System
\* seconds of uptime offered by /proc/uptime (local or remote)
UptimeSamples == {7384}
\* millidegrees offered by thermal_zone0/temp (local or remote); none is
\* halfway between two tenths
TempSamples == {45678}

\* f"{hours}h {minutes}m"
FormatUptime(secs) ==
    PyStr(ToString(secs \div 3600) \o "h "
          \o ToString((secs % 3600) \div 60) \o "m")

\* round(milli / 1000, 1) for milli >= 0 not halfway between two tenths
Round1(milli) == (milli + 50) \div 100

\* a file read: ok is FALSE when open() or the parse of the content fails
FileEnvs(samples) == [ok : BOOLEAN, content : samples]

FileRead(path) == Req("READ", localhost, path, PyNone, NoSid)

\* no try/except: a failure propagates to main
get_uptime(env) ==
    IF ~env.ok THEN Raised(<<FileRead("/proc/uptime")>>)
    ELSE Returned(FormatUptime(env.content), <<FileRead("/proc/uptime")>>)

get_cpu_temp(env) ==
    LET path == "/sys/class/thermal/thermal_zone0/temp"
    IN  IF ~env.ok THEN Returned(NA, <<FileRead(path)>>)
        ELSE Returned(PyFloat1(Round1(env.content)), <<FileRead(path)>>)

\* ------------------------------------------------------- Remote System
\* an SSH command: ok is FALSE when the command fails or prints something
\* that does not parse
SshEnvs(samples) == [ok : BOOLEAN, content : samples]

\* "sshpass -p " + password + " ssh " + user + ... raises TypeError when a
\* secret is None, before any command is run
CommandBuilt(user, password) == user # PyNone /\ password # PyNone

Ssh(ip, command, password) == Req("SSH", ip, command, password, NoSid)

get_remote_uptime(ip, user, password, env) ==
    LET cmd == <<Ssh(ip, "cat /proc/uptime", password)>>
    IN  IF ~CommandBuilt(user, password) THEN Returned(PyInt(0), <<>>)
        ELSE IF ~env.ok THEN Returned(PyInt(0), cmd)
        ELSE Returned(FormatUptime(env.content), cmd)

get_remote_cpu_temp(ip, user, password, env) ==
    LET cmd == <<Ssh(ip, "cat /sys/class/thermal/thermal_zone0/temp",
                     password)>>
    IN  IF ~CommandBuilt(user, password) THEN Returned(NA, <<>>)
        ELSE IF ~env.ok THEN Returned(NA, cmd)
        ELSE Returned(PyFloat1(Round1(env.content)), cmd)

\* ---------------------------------------------------------------- Main
\* the collector calls of main, by the variable that takes the result
HttpCalls ==
    {"pihole1_status", "pihole1_blocked_percentage",
     "pihole2_status", "pihole2_blocked_percentage"}

Collectors ==
    HttpCalls \cup
    {"pihole1_uptime", "pihole1_cpu_temperature", "pihole2_uptime",
     "pihole2_temperature", "battery_percentage"}

\* main with the battery collector called after the push
MainNext_batteryAfterPush(p) ==
    CASE p = "read_password"              -> "read_user"
      [] p = "read_user"                  -> "epd.init"
      [] p = "epd.init"                   -> "pihole1_status"
      [] p = "pihole1_status"             -> "pihole1_blocked_percentage"
      [] p = "pihole1_blocked_percentage" -> "pihole1_uptime"
      [] p = "pihole1_uptime"             -> "pihole1_cpu_temperature"
      [] p = "pihole1_cpu_temperature"    -> "pihole2_status"
      [] p = "pihole2_status"             -> "pihole2_blocked_percentage"
      [] p = "pihole2_blocked_percentage" -> "pihole2_uptime"
      [] p = "pihole2_uptime"             -> "pihole2_temperature"
      [] p = "pihole2_temperature"        -> "draw"
      [] p = "draw"                       -> "epd.display"
      [] p = "epd.display"                -> "battery_percentage"
      [] p = "battery_percentage"         -> "epd.sleep"
      [] p = "epd.sleep"                  -> "done"
      [] OTHER                            -> p

\* main with the panel put to sleep before the push
MainNext_sleepBeforePush(p) ==
    CASE p = "read_password"              -> "read_user"
      [] p = "read_user"                  -> "epd.init"
      [] p = "epd.init"                   -> "pihole1_status"
      [] p = "pihole1_status"             -> "pihole1_blocked_percentage"
      [] p = "pihole1_blocked_percentage" -> "pihole1_uptime"
      [] p = "pihole1_uptime"             -> "pihole1_cpu_temperature"
      [] p = "pihole1_cpu_temperature"    -> "pihole2_status"
      [] p = "pihole2_status"             -> "pihole2_blocked_percentage"
      [] p = "pihole2_blocked_percentage" -> "pihole2_uptime"
      [] p = "pihole2_uptime"             -> "pihole2_temperature"
      [] p = "pihole2_temperature"        -> "battery_percentage"
      [] p = "battery_percentage"         -> "draw"
      [] p = "draw"                       -> "epd.sleep"
      [] p = "epd.sleep"                  -> "epd.display"
      [] p = "epd.display"                -> "done"
      [] OTHER                            -> p

\* the statement of main that follows statement p
MainNext(p) ==
    CASE p = "read_password"              -> "read_user"
      [] p = "read_user"                  -> "epd.init"
      [] p = "epd.init"                   -> "pihole1_status"
      [] p = "pihole1_status"             -> "pihole1_blocked_percentage"
      [] p = "pihole1_blocked_percentage" -> "pihole1_uptime"
      [] p = "pihole1_uptime"             -> "pihole1_cpu_temperature"
      [] p = "pihole1_cpu_temperature"    -> "pihole2_status"
      [] p = "pihole2_status"             -> "pihole2_blocked_percentage"
      [] p = "pihole2_blocked_percentage" -> "pihole2_uptime"
      [] p = "pihole2_uptime"             -> "pihole2_temperature"
      [] p = "pihole2_temperature"        -> "battery_percentage"
      [] p = "battery_percentage"         -> "draw"
      [] p = "draw"                       -> "epd.display"
      [] p = "epd.display"                -> "epd.sleep"
      [] p = "epd.sleep"                  -> "done"
      [] OTHER                            -> p

VARIABLES
    pc,         \* the statement of main to execute next, "done" or "aborted"
    uncaught,   \* the statement whose exception left main, or "none"
    password,   \* main's password
    user,       \* main's user
    results,    \* the result variable of each collector call
    last,       \* the collector call that returned last: env and outcome
    calls,      \* the calls main has made, in order
    sent,       \* number of requests sent to the filter services, by method
    sessions,   \* session ids the filter services issued to this run
    loggedOut,  \* session ids a DELETE /api/auth was sent for
    nextSid,    \* the session id the filter service issues next
    image,      \* the texts drawn on the canvas
    pushed      \* what was pushed to the panel

vars == <<pc, uncaught, password, user, results, last, calls, sent, sessions,
          loggedOut, nextSid, image, pushed>>

Init ==
    /\ pc = "read_password"
    /\ uncaught = "none"
    /\ password = Pending
    /\ user = Pending
    /\ results = [c \in Collectors |-> Pending]
    /\ last = [call |-> "none"]
    /\ calls = <<>>
    /\ sent = [POST |-> 0, GET |-> 0, DELETE |-> 0, authOk |-> 0]
    /\ sessions = {}
    /\ loggedOut = {}
    /\ nextSid = 1
    /\ image = <<>>
    /\ pushed = <<>>

ReadPassword ==
    /\ pc = "read_password"
    /\ \E file \in SecretFiles : password' = read_password_from_file(file)
    /\ pc' = MainNext(pc)
    /\ UNCHANGED <<uncaught, user, results, last, calls, sent, sessions,
                   loggedOut, nextSid, image, pushed>>

ReadUser ==
    /\ pc = "read_user"
    /\ \E file \in SecretFiles : user' = read_user_from_file(file)
    /\ pc' = MainNext(pc)
    /\ UNCHANGED <<uncaught, password, results, last, calls, sent, sessions,
                   loggedOut, nextSid, image, pushed>>

\* epd2in13_V2.EPD() and epd.init(): a failure is not caught
EpdInit ==
    /\ pc = "epd.init"
    /\ \E ok \in BOOLEAN :
          IF ok THEN /\ calls' = Append(calls, "epd.init")
                     /\ pc' = MainNext(pc)
                     /\ uncaught' = uncaught
                ELSE /\ calls' = calls
                     /\ pc' = "aborted"
                     /\ uncaught' = pc
    /\ UNCHANGED <<password, user, results, last, sent, sessions, loggedOut,
                   nextSid, image, pushed>>

Count(reqs, method) ==
    Cardinality({i \in 1..Len(reqs) : reqs[i].method = method})

\* main calls a collector: the collector runs with environment env and
\* hands back r; sid is the session id an authenticate of this call got
Collect(call, env, r, sid) ==
    /\ pc = call
    /\ calls' = Append(calls, call)
    /\ last' = [call |-> call, env |-> env, ret |-> r, sid |-> sid]
    /\ sent' = [POST   |-> sent.POST + Count(r.requests, "POST"),
                GET    |-> sent.GET + Count(r.requests, "GET"),
                DELETE |-> sent.DELETE + Count(r.requests, "DELETE"),
                authOk |-> sent.authOk + IF sid # NoSid THEN 1 ELSE 0]
    /\ sessions' = IF sid # NoSid THEN sessions \cup {sid} ELSE sessions
    /\ nextSid' = IF sid # NoSid THEN nextSid + 1 ELSE nextSid
    /\ loggedOut' = loggedOut \cup
          {r.requests[i].sid : i \in {j \in 1..Len(r.requests) :
                                        r.requests[j].method = "DELETE"}}
    /\ IF r.raised
          THEN /\ pc' = "aborted"
               /\ uncaught' = call
               /\ results' = results
          ELSE /\ pc' = MainNext(pc)
               /\ uncaught' = uncaught
               /\ results' = [results EXCEPT ![call] = r.value]
    /\ UNCHANGED <<password, user, image, pushed>>

IssuedSid(env) == IF env.auth = "valid" THEN nextSid ELSE NoSid

GetStatus(call, ip) ==
    \E env \in HttpEnvs(BlockingBodies, "malformed") :
        Collect(call, env, get_status(ip, password, env, nextSid),
                IssuedSid(env))

GetBlockedPercentage(call, ip) ==
    \E env \in HttpEnvs(SummaryBodies, [kind |-> "malformed", milli |-> 0]) :
        Collect(call, env, get_blocked_percentage(ip, password, env, nextSid),
                IssuedSid(env))

Pihole1Status == GetStatus("pihole1_status", pihole1_ip)

Pihole1Blocked == GetBlockedPercentage("pihole1_blocked_percentage", pihole1_ip)

Pihole1Uptime ==
    \E env \in SshEnvs(UptimeSamples) :
        Collect("pihole1_uptime", env,
                get_remote_uptime(pihole1_ip, user, password, env), NoSid)

Pihole1CpuTemp ==
    \E env \in SshEnvs(TempSamples) :
        Collect("pihole1_cpu_temperature", env,
                get_remote_cpu_temp(pihole1_ip, user, password, env), NoSid)

Pihole2Status == GetStatus("pihole2_status", localhost)

Pihole2Blocked == GetBlockedPercentage("pihole2_blocked_percentage", localhost)

Pihole2Uptime ==
    \E env \in FileEnvs(UptimeSamples) :
        Collect("pihole2_uptime", env, get_uptime(env), NoSid)

Pihole2Temp ==
    \E env \in FileEnvs(TempSamples) :
        Collect("pihole2_temperature", env, get_cpu_temp(env), NoSid)

Battery ==
    \E env \in BatteryEnvs :
        Collect("battery_percentage", env, get_battery(env), NoSid)

\* the f-strings drawn on the canvas: position, prefix, value, suffix
Text(x, y, prefix, value, suffix) ==
    [x |-> x, y |-> y, prefix |-> prefix, value |-> value, suffix |-> suffix]

Drawn ==
    << Text(10, 6, "", PyStr(pihole1_ip), ""),
       Text(10, 25, "Status: ", results["pihole1_status"], ""),
       Text(10, 44, "Uptime: ", results["pihole1_uptime"], ""),
       Text(10, 63, "Blocked: ", results["pihole1_blocked_percentage"], "%"),
       Text(10, 82, "Temp: ", results["pihole1_cpu_temperature"], "C"),
       Text(130, 6, "", PyStr(pihole2_ip), ""),
       Text(130, 25, "Status: ", results["pihole2_status"], ""),
       Text(130, 44, "Uptime: ", results["pihole2_uptime"], ""),
       Text(130, 63, "Blocked: ", results["pihole2_blocked_percentage"], "%"),
       Text(130, 82, "Temp: ", results["pihole2_temperature"], "%"),
       Text(10, 101, "[", results["battery_percentage"], "%]") >>

\* loading the fonts is not wrapped: a missing font file aborts the run
Draw ==
    /\ pc = "draw"
    /\ \E fontsOk \in BOOLEAN :
          IF fontsOk THEN /\ image' = Drawn
                          /\ pc' = MainNext(pc)
                          /\ uncaught' = uncaught
                     ELSE /\ image' = image
                          /\ pc' = "aborted"
                          /\ uncaught' = pc
    /\ UNCHANGED <<password, user, results, last, calls, sent, sessions,
                   loggedOut, nextSid, pushed>>

Display ==
    /\ pc = "epd.display"
    /\ calls' = Append(calls, "epd.display")
    /\ pushed' = image
    /\ pc' = MainNext(pc)
    /\ UNCHANGED <<uncaught, password, user, results, last, sent, sessions,
                   loggedOut, nextSid, image>>

Sleep ==
    /\ pc = "epd.sleep"
    /\ calls' = Append(calls, "epd.sleep")
    /\ pc' = MainNext(pc)
    /\ UNCHANGED <<uncaught, password, user, results, last, sent, sessions,
                   loggedOut, nextSid, image, pushed>>

Next ==
    \/ ReadPassword
    \/ ReadUser
    \/ EpdInit
    \/ Pihole1Status
    \/ Pihole1Blocked
    \/ Pihole1Uptime
    \/ Pihole1CpuTemp
    \/ Pihole2Status
    \/ Pihole2Blocked
    \/ Pihole2Uptime
    \/ Pihole2Temp
    \/ Battery
    \/ Draw
    \/ Display
    \/ Sleep

Spec == Init /\ [][Next]_vars

\* ------------------------------------------------------------ properties
Has(call) == \E i \in 1..Len(calls) : calls[i] = call

Finished == pc \in {"done", "aborted"}

IsHttp == last.call \in HttpCalls

\* the ip main passes to the collector call
CallIp(call) ==
    IF call \in {"pihole2_status", "pihole2_blocked_percentage"}
        THEN localhost ELSE pihole1_ip

\* the dependency the last collector call reads was unavailable or failed
DependencyFailed ==
    CASE last.call \in {"pihole1_status", "pihole2_status"} ->
             last.env.auth # "valid" \/ ~last.env.getOk
                 \/ last.env.body = "malformed"
      [] last.call \in {"pihole1_blocked_percentage",
                        "pihole2_blocked_percentage"} ->
             last.env.auth # "valid" \/ ~last.env.getOk
                 \/ last.env.body.kind = "malformed"
      [] last.call \in {"pihole1_uptime", "pihole1_cpu_temperature"} ->
             ~last.env.ok \/ user = PyNone \/ password = PyNone
      [] last.call \in {"pihole2_uptime", "pihole2_temperature"} ->
             ~last.env.ok
      [] last.call = "battery_percentage" ->
             ~last.env.ctor \/ ~last.env.readOk \/ ~last.env.rtcOk
      [] OTHER -> FALSE

\* C1: every collector returns to main, and returns the sentinel "N/A" or 0
\* when the dependency it reads was unavailable or failed.
C1_CollectorReturnsSentinel ==
    last.call \in Collectors =>
        /\ ~last.ret.raised
        /\ DependencyFailed => last.ret.value \in {NA, PyInt(0)}

\* C2: a finished run whose driver initialisation and font loading
\* succeeded has pushed the bitmap and put the panel to sleep, whatever the
\* collectors and the secrets files did.
C2_RunReachesPushAndSleep ==
    (Finished /\ uncaught \notin {"epd.init", "draw"}) =>
        Has("epd.display") /\ Has("epd.sleep")

\* C3: whenever a collector has returned, every session id issued to the
\* run has had a DELETE /api/auth sent for it.
C3_EverySessionLoggedOut == sessions \subseteq loggedOut

\* C4: the push happens only after each of the nine collector calls has
\* been made once and has returned, and no collector is called after it.
C4_PushAfterAllCollectors ==
    \A i \in 1..Len(calls) :
        calls[i] = "epd.display" =>
            /\ Cardinality(Collectors) = 9
            /\ \A c \in Collectors :
                  /\ Cardinality({j \in 1..(i - 1) : calls[j] = c}) = 1
                  /\ results[c] # Pending
            /\ \A j \in (i + 1)..Len(calls) : calls[j] \notin Collectors

C4_Pushed ==
    /\ pc = "epd.sleep" /\ Has("epd.display")
    /\ \A c \in Collectors : Has(c) /\ results[c] # Pending
    /\ pushed = Drawn

\* C5: the driver calls of a run are a prefix of init, display, sleep (one
\* init, then at most one push, then at most one sleep, nothing after the
\* sleep), and a finished run that pushed has also put the panel to sleep.
C5_InitPushSleepOnce ==
    LET driver == SelectSeq(calls, LAMBDA c :
                      c \in {"epd.init", "epd.display", "epd.sleep"})
    IN  /\ driver = SubSeq(<<"epd.init", "epd.display", "epd.sleep">>,
                           1, Len(driver))
        /\ (Finished /\ Has("epd.display")) => Len(driver) = 3

C5_PushedAndAsleep == pc = "done" /\ Has("epd.display") /\ Has("epd.sleep")

\* C6: no collector call attempts the same external call twice, and a run
\* sends at most 4 POST, 4 GET and 4 DELETE requests and never more GETs or
\* DELETEs than authentications that succeeded.
C6_NoRetries ==
    /\ sent.POST <= 4 /\ sent.GET <= 4 /\ sent.DELETE <= 4
    /\ sent.GET <= sent.authOk /\ sent.DELETE <= sent.authOk
    /\ last.call \in Collectors =>
          \A i, j \in 1..Len(last.ret.requests) :
              i # j => last.ret.requests[i] # last.ret.requests[j]

C6_FailedCallNotRepeated ==
    /\ pc = "done" /\ sent.POST = 4 /\ sent.authOk = 3 /\ sent.GET = 3
    /\ sent.DELETE = 2
    /\ results["pihole1_uptime"] = PyInt(0)
    /\ results["pihole2_temperature"] = NA

\* C8: when authenticate fails the collector returns "N/A" and sends no
\* GET and no DELETE; every GET and DELETE goes to the ip of the call and
\* carries the session id the authenticate of the same call obtained.
C8_RequestsOnlyAfterAuth ==
    IsHttp =>
        LET reqs == last.ret.requests
        IN  /\ last.env.auth # "valid" =>
                  /\ last.ret = Returned(NA, <<reqs[1]>>)
                  /\ reqs[1].method = "POST"
                  /\ last.sid = NoSid
            /\ \A i \in 1..Len(reqs) :
                  reqs[i].method \in {"GET", "DELETE"} =>
                      /\ last.env.auth = "valid"
                      /\ last.sid # NoSid
                      /\ reqs[i].sid = last.sid
                      /\ reqs[i].target = CallIp(last.call)
                      /\ reqs[1].method = "POST"
                      /\ reqs[1].target = reqs[i].target

C8_AuthFailed ==
    /\ IsHttp /\ last.env.auth = "invalid"
    /\ results[last.call] = NA
    /\ sent.GET > 0

\* C9: when authenticate and the GET succeed and the body is well formed,
\* the collector returns the value of the body (the blocking field, or
\* percent_blocked to two decimals, 0.0 if absent) whether or not the logout
\* succeeded, and the DELETE was sent.
C9_LogoutFailureHarmless ==
    (IsHttp /\ last.env.auth = "valid" /\ last.env.getOk) =>
        /\ ~last.ret.raised
        /\ Count(last.ret.requests, "DELETE") = 1
        /\ last.call \in {"pihole1_status", "pihole2_status"} =>
              /\ last.env.body = "enabled" => last.ret.value = PyStr("enabled")
              /\ last.env.body = "nokey" => last.ret.value = PyNone
        /\ last.call \in {"pihole1_blocked_percentage",
                           "pihole2_blocked_percentage"} =>
              /\ last.env.body.kind = "nopercent" =>
                    last.ret.value = PyFloat2(0)
              /\ last.env.body.kind = "percent" =>
                    \E h \in 0..MaxBlockedMilli :
                        /\ last.ret.value = PyFloat2(h)
                        /\ 10 * h - 5 < last.env.body.milli
                        /\ last.env.body.milli < 10 * h + 5

C9_LogoutFailed ==
    /\ last.call = "pihole2_blocked_percentage"
    /\ last.env.auth = "valid" /\ last.env.getOk /\ ~last.env.logoutOk
    /\ last.env.body = [kind |-> "percent", milli |-> 7]
    /\ results[last.call] = PyFloat2(1)

\* C10: get_battery returns the integer part of the reading exactly when
\* the battery read and the RTC sync both succeed and "N/A" otherwise, also
\* when only the RTC sync fails; the RTC sync is attempted only after a
\* successful battery read.
C10_BatteryNeedsRtcSync ==
    last.call = "battery_percentage" =>
        LET e == last.env
            readOk == e.ctor /\ e.readOk
            synced == \E i \in 1..Len(last.ret.requests) :
                          last.ret.requests[i].arg = "set_pi_from_rtc"
        IN  /\ ~last.ret.raised
            /\ (readOk /\ e.rtcOk) =>
                  \E n \in 0..MaxBatteryQuarters :
                      /\ last.ret.value = PyInt(n)
                      /\ 4 * n <= e.quarters /\ e.quarters < 4 * (n + 1)
            /\ ~(readOk /\ e.rtcOk) => last.ret.value = NA
            /\ synced <=> readOk

C10_RtcSyncFailed ==
    /\ last.call = "battery_percentage"
    /\ last.env.ctor /\ last.env.readOk /\ ~last.env.rtcOk
    /\ last.env.quarters = 5
    /\ results["battery_percentage"] = NA

====
